---------------------------- MODULE Spec2Model ----------------------------
(***************************************************************************)
(* A model of lib/Parse/Parser.cpp: the token cursor (consumeToken), the   *)
(* recovery engine (skipSingle and the skipUntil family), the separated    *)
(* list parser (parseList), parser construction and delayed parsing.       *)
(*                                                                         *)
(* The lexer's output is a finite sequence of token kinds ending in eof;   *)
(* a source location is the index of a token in that sequence.  The C++    *)
(* call stack is explicit: each frame names its function and the place it  *)
(* resumes at, and one action models one basic block of a function.        *)
(***************************************************************************)
EXTENDS Integers, Sequences, FiniteSets, TLC

VARIABLES
  toks,         \* the lexer's token kinds, the last one "eof"
  eofText,      \* the text of the eof token: "", ")" or "]"
  defaultStop,  \* the header's default for StopAtCodeComplete
  pos,          \* index in toks of Parser::Tok
  prevLoc,      \* Parser::PreviousLoc
  stack,        \* call stack, innermost frame first
  lexPastEof,   \* consumeToken's assertion "Lexing past eof!" has failed
  call,         \* the operation the driver called last
  ncall,        \* how many operations the driver has called
  startPos,     \* pos when the last driver call started
  startPrev,    \* prevLoc when the last driver call started
  nSingle,      \* skipSingle invocations during the last skipUntil call
  pl,           \* parseList's parameters and locals
  diags,        \* the diagnostics emitted, in order
  cb,           \* what the element callbacks have done so far
  ret,          \* how parseList returned
  ps,           \* the PersistentParserState
  factory,      \* a CodeCompletionCallbacksFactory was supplied
  decls,        \* TU->Decls
  dp,           \* where performDelayedParsing is
  parsers,      \* the Parsers constructed, in order
  faults,       \* assertion failures and null dereferences
  src,          \* the tokens the lexer finds in the buffer, with positions
  defaultSplit, \* the header's default for TokenizeInterpolatedString
  tz,           \* call stack of tokenize and getStringPartTokens
  out,          \* what the outermost tokenize returned
  emptyBack,    \* back() was called on an empty vector
  chars,        \* the characters of the buffer the cursor below is on
  cur           \* a token cursor with token lengths

cursorVars == <<pos, prevLoc, lexPastEof>>
inputVars  == <<toks, eofText, defaultStop>>
driverVars == <<call, ncall, startPos, startPrev>>
listVars   == <<pl, diags, cb, ret>>
delayVars  == <<ps, factory, decls, dp, parsers, faults>>
tokVars    == <<src, defaultSplit, tz, out, emptyBack>>
angleVars  == <<chars, cur>>

vars == <<toks, eofText, defaultStop, pos, prevLoc, stack, lexPastEof,
          call, ncall, startPos, startPrev, nSingle, pl, diags, cb, ret,
          ps, factory, decls, dp, parsers, faults,
          src, defaultSplit, tz, out, emptyBack, chars, cur>>

-----------------------------------------------------------------------------
(* Bounds on the inputs. *)

\* longest token stream (eof excluded) over the bracket alphabet
MaxLen == 4
\* longest token stream (eof excluded) over the full alphabet
ShortLen == 2
\* longest token stream (eof excluded) over parentheses and unknown
MidLen == 3
\* longest token stream (eof excluded) over the list alphabet
ListLen == 3
\* longest run of elements and separators before a list's close delimiter
MaxElems == 6
\* most tokens one element callback consumes
MaxConsume == 2
\* source buffers
NumBuffers == 2
\* top-level declarations of the translation unit
MaxDecls == 2
\* calls of parseIntoTranslationUnit before the delayed parsing
MaxParses == 2
\* tokens of a buffer without interpolated strings
MaxItems == 3
\* interpolated expressions of one string literal
MaxExprs == 2
\* tokens of one interpolated expression, after its '('
MaxInner == 1
\* characters of one literal segment
MaxText == 1
\* characters of the buffer under the partial consumption
MaxChars == 4
\* cursor operations called on it
MaxOps == 3

-----------------------------------------------------------------------------
(* Token kinds. *)

Openers == {"l_paren", "l_brace", "l_square"}

BracketKinds ==
  {"l_paren", "r_paren", "l_brace", "r_brace", "code_complete", "identifier"}

AllKinds ==
  {"l_paren", "r_paren", "l_brace", "r_brace", "l_square", "r_square",
   "comma", "semi", "identifier", "oper", "kw_var", "kw_protocol", "kw_if",
   "code_complete", "unknown"}

\* the kinds skipUntil is asked to stop at
TargetKinds == {"r_paren", "r_brace", "identifier", "unknown"}

ListKinds == {"identifier", "comma", "l_paren", "r_paren", "code_complete"}

SeqsUpTo(S, n) == UNION {[1..k -> S] : k \in 0..n}

\* the places where s, a run of elements and commas, is not a well-formed
\* list: two adjacent elements, two adjacent commas, a comma at either end
Defects(s) ==
  {i \in 1..(Len(s) - 1) : s[i] = s[i + 1]}
  \cup {i \in {0} : s # <<>> /\ s[1] = "comma"}
  \cup {i \in {Len(s)} : s # <<>> /\ s[Len(s)] = "comma"}

\* what follows a list's opening delimiter: any short stream, or a closed
\* list of identifiers with at most one separator missing or to spare
ListStreams ==
  {s \o <<"eof">> : s \in SeqsUpTo(ListKinds, ListLen)}
  \cup {s \o <<"r_paren", "eof">> :
          s \in {t \in SeqsUpTo({"identifier", "comma"}, MaxElems) :
                   Cardinality(Defects(t)) <= 1}}

\* a group around a token of kind unknown, the kind of skipUntil's sentinel
SentinelKinds == {"l_paren", "r_paren", "unknown"}

TokenStreams ==
  {s \o <<"eof">> : s \in SeqsUpTo(BracketKinds, MaxLen)
                          \cup SeqsUpTo(AllKinds, ShortLen)
                          \cup SeqsUpTo(SentinelKinds, MidLen)}

\* the closer skipSingle looks for after an opener
Closer(k) ==
  CASE k = "l_paren"  -> "r_paren"
    [] k = "l_brace"  -> "r_brace"
    [] k = "l_square" -> "r_square"

-----------------------------------------------------------------------------
(* The token cursor. *)

Tok == toks[pos]

\* Lexer::peekNextToken: the token consumeToken would install
peekToken == toks[IF pos < Len(toks) THEN pos + 1 ELSE pos]

isAnyOperator(k) == k = "oper"

isStartOfStmt(k) == k = "kw_if"

isStartOfDecl(k, k2) ==
  \/ k = "kw_var"
  \/ k = "kw_protocol" /\ ~isAnyOperator(k2)

\* consumeToken: the assertion, then L->lex(Tok) and PreviousLoc = Loc.
\* Lexing at eof yields eof again.
consumeToken ==
  /\ lexPastEof' = (lexPastEof \/ Tok = "eof")
  /\ pos' = (IF pos < Len(toks) THEN pos + 1 ELSE pos)
  /\ prevLoc' = pos

noConsume == UNCHANGED <<pos, prevLoc, lexPastEof>>

\* consumeIf(K), its result dropped
consumeIf(K) == IF Tok = K THEN consumeToken ELSE noConsume

-----------------------------------------------------------------------------
(* The call stack. *)

Frame(fn, pc, t1, t2, stop) ==
  [fn |-> fn, pc |-> pc, t1 |-> t1, t2 |-> t2, stop |-> stop]

Top == Head(stack)

Running(fn) == /\ ~lexPastEof
               /\ stack # <<>>
               /\ Top.fn = fn

Return == stack' = Tail(stack)

\* the caller's frame becomes resume while the callee runs
CallFrom(resume, callee) ==
  stack' = <<callee, resume>> \o Tail(stack)

At(pc) == [Top EXCEPT !.pc = pc]

countsSingle == call.op = "skipUntil"

\* the frame of skipUntil(T1, T2, StopAtCodeComplete)
skipUntilFrame(T1, T2, stop) == Frame("skipUntil", "entry", T1, T2, stop)

\* the frame of skipUntil(T1, StopAtCodeComplete): the overload with one
\* target passes the sentinel tok::unknown as the second
skipUntil1Frame(T1, stop) == skipUntilFrame(T1, "unknown", stop)

-----------------------------------------------------------------------------
(* The recovery engine. *)

\* skipSingle, lines 289-313: the switch on the current token
SkipSingleSwitch ==
  /\ Running("skipSingle")
  /\ Top.pc = "switch"
  /\ IF Tok \in Openers
       THEN /\ consumeToken
            /\ CallFrom([Top EXCEPT !.pc = "consumeIf", !.t1 = Closer(Tok)],
                 skipUntil1Frame(Closer(Tok), Top.stop))
       ELSE IF Tok = "code_complete"
       THEN /\ IF ~Top.stop THEN consumeToken ELSE noConsume
            /\ Return
       ELSE /\ consumeToken
            /\ Return
  /\ UNCHANGED <<inputVars, delayVars, tokVars, angleVars, driverVars, listVars, nSingle>>

\* skipSingle, lines 294, 299, 304: consumeIf(closer); break
SkipSingleClose ==
  /\ Running("skipSingle")
  /\ Top.pc = "consumeIf"
  /\ consumeIf(Top.t1)
  /\ Return
  /\ UNCHANGED <<inputVars, delayVars, tokVars, angleVars, driverVars, listVars, nSingle>>

\* a loop condition that forgets the end of input
skipUntilCond_NoEof(T1, T2, stop) ==
  /\ Tok # T1
  /\ Tok # T2
  /\ (~stop \/ Tok # "code_complete")

\* a loop condition that forgets the code-completion clause
skipUntilCond_NoCodeComplete(T1, T2, stop) ==
  /\ Tok # "eof"
  /\ Tok # T1
  /\ Tok # T2

\* skipUntil's loop condition, lines 320-321
skipUntilCond(T1, T2, stop) ==
  /\ Tok # "eof"
  /\ Tok # T1
  /\ Tok # T2
  /\ (~stop \/ Tok # "code_complete")

\* a loop that tests its condition after the body (do ... while)
SkipLoop_DoWhile(cond, stop) ==
  /\ IF cond \/ (Top.pc = "entry" /\ Tok # "eof")
       THEN /\ CallFrom(At("loop"), Frame("skipSingle", "switch",
                                          "unknown", "unknown", FALSE))
            /\ nSingle' = (IF countsSingle THEN nSingle + 1 ELSE nSingle)
       ELSE /\ Return
            /\ UNCHANGED nSingle
  /\ noConsume
  /\ UNCHANGED <<inputVars, delayVars, tokVars, angleVars, driverVars, listVars>>

\* a loop that calls skipSingle() without handing on StopAtCodeComplete
SkipLoop_DropsStop(cond, stop) ==
  /\ IF cond
       THEN /\ CallFrom(At("loop"), Frame("skipSingle", "switch",
                                          "unknown", "unknown", FALSE))
            /\ nSingle' = (IF countsSingle THEN nSingle + 1 ELSE nSingle)
       ELSE /\ Return
            /\ UNCHANGED nSingle
  /\ noConsume
  /\ UNCHANGED <<inputVars, delayVars, tokVars, angleVars, driverVars, listVars>>

\* one test of a skip loop (the while of lines 320, 326, 331, 337): call
\* skipSingle(stop) or leave the loop
SkipLoop(cond, stop) ==
  /\ IF cond
       THEN /\ CallFrom(At("loop"), Frame("skipSingle", "switch",
                                          "unknown", "unknown", stop))
            /\ nSingle' = (IF countsSingle THEN nSingle + 1 ELSE nSingle)
       ELSE /\ Return
            /\ UNCHANGED nSingle
  /\ noConsume
  /\ UNCHANGED <<inputVars, delayVars, tokVars, angleVars, driverVars, listVars>>

\* skipUntil, lines 316-323
SkipUntil ==
  /\ Running("skipUntil")
  /\ IF Top.pc = "entry" /\ Top.t1 = "unknown" /\ Top.t2 = "unknown"
       THEN /\ Return
            /\ noConsume
            /\ UNCHANGED <<inputVars, delayVars, tokVars, angleVars, driverVars, listVars, nSingle>>
       ELSE SkipLoop(skipUntilCond(Top.t1, Top.t2, Top.stop), Top.stop)

\* skipUntilAnyOperator, lines 325-328
SkipUntilAnyOperator ==
  /\ Running("skipUntilAnyOperator")
  /\ SkipLoop(Tok # "eof" /\ ~isAnyOperator(Tok), defaultStop)

\* skipUntilDeclRBrace, lines 330-334
SkipUntilDeclRBrace ==
  /\ Running("skipUntilDeclRBrace")
  /\ SkipLoop(/\ Tok # "eof"
              /\ Tok # "r_brace"
              /\ ~isStartOfDecl(Tok, peekToken),
              defaultStop)

\* skipUntilDeclStmtRBrace, lines 336-343
SkipUntilDeclStmtRBrace ==
  /\ Running("skipUntilDeclStmtRBrace")
  /\ SkipLoop(/\ Tok # "eof"
              /\ Tok # "r_brace"
              /\ ~isStartOfStmt(Tok)
              /\ ~isStartOfDecl(Tok, peekToken)
              /\ (~Top.stop \/ Tok # "code_complete"),
              Top.stop)

-----------------------------------------------------------------------------
(* The driver: a caller of the recovery engine.  It calls one operation    *)
(* and, once that has returned, calls it again with the same arguments.    *)

NoCall == [op |-> "none", t1 |-> "unknown", t2 |-> "unknown", stop |-> FALSE]

SkipCalls ==
  {[op |-> "skipUntil", t1 |-> a, t2 |-> b, stop |-> s] :
      a \in TargetKinds, b \in TargetKinds, s \in BOOLEAN}
  \cup {[op |-> "skipSingle", t1 |-> "unknown", t2 |-> "unknown", stop |-> s] :
      s \in BOOLEAN}
  \cup {[op |-> "skipUntilDeclStmtRBrace", t1 |-> "unknown", t2 |-> "unknown",
         stop |-> s] : s \in BOOLEAN}
  \cup {[op |-> o, t1 |-> "unknown", t2 |-> "unknown", stop |-> FALSE] :
      o \in {"skipUntilAnyOperator", "skipUntilDeclRBrace"}}

EntryPc(op) == IF op = "skipSingle" THEN "switch" ELSE "entry"

Idle == stack = <<>> /\ ~lexPastEof

CallSkip ==
  /\ Idle
  /\ ncall < 2
  /\ \E c \in SkipCalls :
       /\ ncall = 1 => c = call
       /\ call' = c
       /\ stack' = <<Frame(c.op, EntryPc(c.op), c.t1, c.t2, c.stop)>>
  /\ ncall' = ncall + 1
  /\ startPos' = pos
  /\ startPrev' = prevLoc
  /\ nSingle' = 0
  /\ UNCHANGED <<inputVars, delayVars, tokVars, angleVars, cursorVars, listVars>>


-----------------------------------------------------------------------------
(* The list parser. *)

\* parseList's parameters and locals; LeftLoc is location 0, the opening
\* delimiter the caller consumed.  iterStart and progress record, for each
\* pass of the while (true) loop, where it began and whether the pass before
\* it consumed a token.
NoList ==
  [RightK |-> "unknown", SeparatorK |-> "comma", OptionalSep |-> FALSE,
   Invalid |-> FALSE, StartLoc |-> 0, RightLoc |-> 0,
   iterStart |-> 0, progress |-> TRUE]

LeftLoc == 0

\* the invalid location, a default-constructed SourceLoc
InvalidLoc == LeftLoc - 1

NoCallbacks == [count |-> 0, oneEach |-> TRUE, failed |-> FALSE]

NotReturned == [via |-> "none", value |-> FALSE]

Diag(id, loc, fix, at, text) ==
  [id |-> id, loc |-> loc, fix |-> fix, at |-> at, text |-> text]

diagnose(d) == diags' = Append(diags, d)

SeparatorText == IF pl.SeparatorK = "comma" THEN "," ELSE ";"

\* the next pass of the while (true) loop begins
NextPass(p) == [p EXCEPT !.iterStart = pos', !.progress = pos' > p.iterStart]

ReturnList(via, value) ==
  /\ Return
  /\ ret' = [via |-> via, value |-> value]

\* lines 424-429: the empty list, else into the loop
ParseListEntry ==
  /\ Running("parseList")
  /\ Top.pc = "entry"
  /\ IF Tok = pl.RightK
       THEN /\ consumeToken
            /\ pl' = [pl EXCEPT !.RightLoc = pos]
            /\ ReturnList("empty", FALSE)
       ELSE /\ noConsume
            /\ pl' = [pl EXCEPT !.Invalid = FALSE, !.iterStart = pos]
            /\ stack' = <<At("loop")>> \o Tail(stack)
            /\ UNCHANGED ret
  /\ UNCHANGED <<inputVars, delayVars, tokVars, angleVars, driverVars, nSingle, diags, cb>>

\* lines 431-436: one stray separator is diagnosed and consumed
ParseListStraySeparator ==
  /\ Running("parseList")
  /\ Top.pc = "loop"
  /\ Tok = pl.SeparatorK
  /\ diagnose(Diag("unexpected_separator", pos, "remove", pos, SeparatorText))
  /\ consumeToken
  /\ UNCHANGED <<inputVars, delayVars, tokVars, angleVars, driverVars, nSingle, stack, pl, cb, ret>>

\* lines 437-438: StartLoc, then the element callback, which consumes some
\* tokens, never eof, and reports failure or not
ParseListElement ==
  /\ Running("parseList")
  /\ Top.pc = "loop"
  /\ Tok # pl.SeparatorK
  /\ \E n \in 0..MaxConsume, failed \in BOOLEAN :
       /\ pos + n <= Len(toks)
       /\ pos' = pos + n
       /\ prevLoc' = (IF n = 0 THEN prevLoc ELSE pos + n - 1)
       /\ pl' = [pl EXCEPT !.StartLoc = pos, !.Invalid = @ \/ failed]
       /\ cb' = [count |-> cb.count + 1,
                 oneEach |-> cb.oneEach /\ n = 1 /\ Tok = "identifier",
                 failed |-> cb.failed \/ failed]
  /\ stack' = <<At("check")>> \o Tail(stack)
  /\ UNCHANGED <<inputVars, delayVars, tokVars, angleVars, driverVars, nSingle, lexPastEof, diags, ret>>

\* a separator check that forgets to mark the list invalid
MissingSeparator_KeepsValid(p) == p

\* lines 450-456, the flag: a mandatory separator is missing
MissingSeparator(p) == [p EXCEPT !.Invalid = @ \/ ~p.OptionalSep]

\* a progress check that never asks for the forced skip
madeNoProgress_Never == FALSE

\* a progress check that always asks for the forced skip
madeNoProgress_Always == TRUE

\* line 458: the element callback and the separator check consumed nothing
madeNoProgress == pos = pl.StartLoc

\* lines 439-459: after the element
ParseListCheck ==
  /\ Running("parseList")
  /\ Top.pc = "check"
  /\ IF Tok = pl.RightK
       THEN /\ stack' = <<At("close")>> \o Tail(stack)
            /\ noConsume
            /\ UNCHANGED <<pl, diags, ret>>
     ELSE IF Tok = "eof" /\ eofText = ")"
       THEN /\ pl' = [pl EXCEPT !.RightLoc = pos]
            /\ ReturnList("eofClose", pl.Invalid)
            /\ noConsume
            /\ UNCHANGED diags
     ELSE IF Tok = pl.SeparatorK
       THEN /\ consumeToken
            /\ pl' = NextPass(pl)
            /\ stack' = <<At("loop")>> \o Tail(stack)
            /\ UNCHANGED <<diags, ret>>
     ELSE /\ noConsume
          /\ UNCHANGED ret
          /\ IF ~pl.OptionalSep
               THEN diagnose(Diag("expected_separator", pos, "insert",
                                  prevLoc, SeparatorText))
               ELSE UNCHANGED diags
          /\ IF madeNoProgress
               THEN /\ pl' = MissingSeparator(pl)
                    /\ CallFrom(At("skipped"),
                         skipUntilFrame(pl.RightK, pl.SeparatorK, defaultStop))
               ELSE /\ pl' = NextPass(MissingSeparator(pl))
                    /\ stack' = <<At("loop")>> \o Tail(stack)
  /\ UNCHANGED <<inputVars, delayVars, tokVars, angleVars, driverVars, nSingle, cb>>

\* lines 460-464: after the forced skip
ParseListSkipped ==
  /\ Running("parseList")
  /\ Top.pc = "skipped"
  /\ IF Tok = pl.RightK
       THEN /\ stack' = <<At("close")>> \o Tail(stack)
            /\ noConsume
            /\ UNCHANGED <<pl, ret>>
     ELSE IF Tok = "eof" \/ Tok = "code_complete"
       THEN /\ ReturnList("noProgress", TRUE)
            /\ noConsume
            /\ UNCHANGED pl
     ELSE /\ consumeIf(pl.SeparatorK)
          /\ pl' = NextPass(pl)
          /\ stack' = <<At("loop")>> \o Tail(stack)
          /\ UNCHANGED ret
  /\ UNCHANGED <<inputVars, delayVars, tokVars, angleVars, driverVars, nSingle, diags, cb>>

\* parseMatchingToken's note for the opener, lines 403-409
OtherNote(K) ==
  CASE K = "r_paren"  -> "opening_paren"
    [] K = "r_square" -> "opening_bracket"
    [] K = "r_brace"  -> "opening_brace"

\* lines 468-469: parseMatchingToken(RightK, RightLoc, ErrorDiag, LeftLoc),
\* with parseToken (lines 388-396) inside it
ParseListClose ==
  /\ Running("parseList")
  /\ Top.pc = "close"
  /\ IF Tok = pl.RightK
       THEN /\ consumeToken
            /\ pl' = [pl EXCEPT !.RightLoc = pos]
            /\ ReturnList("close", pl.Invalid)
            /\ UNCHANGED diags
       ELSE /\ noConsume
            /\ diags' = diags \o <<Diag("ErrorDiag", pos, "none", 0, ""),
                                   Diag(OtherNote(pl.RightK), LeftLoc, "none",
                                        0, "")>>
            /\ pl' = [pl EXCEPT !.Invalid = TRUE]
            /\ ReturnList("close", TRUE)
  /\ UNCHANGED <<inputVars, delayVars, tokVars, angleVars, driverVars, nSingle, cb>>

\* a caller has consumed the opening delimiter and calls parseList
CallParseList ==
  /\ Idle
  /\ ncall = 0
  /\ prevLoc = LeftLoc
  /\ \E K \in {"r_paren", "r_square"}, S \in {"comma", "semi"}, o \in BOOLEAN :
       pl' = [NoList EXCEPT !.RightK = K, !.SeparatorK = S, !.OptionalSep = o]
  /\ call' = [NoCall EXCEPT !.op = "parseList"]
  /\ ncall' = 1
  /\ stack' = <<Frame("parseList", "entry", "unknown", "unknown", FALSE)>>
  /\ UNCHANGED <<inputVars, delayVars, tokVars, angleVars, cursorVars, startPos, startPrev, nSingle, diags,
                 cb, ret>>

-----------------------------------------------------------------------------
(* The tokenizer entry point and the string-segment splitter.              *)
(*                                                                         *)
(* A buffer is laid out from shapes: every token is preceded by one blank; *)
(* an identifier is one character; a string literal is a quote, literal    *)
(* text, then any number of  \ ( tokens )  literal text, then a quote.     *)
(* The scanner's segments of a string literal are Literal (Expr Literal)*, *)
(* an Expr segment running from its '(' up to its ')'.                     *)

Identifier == [kind |-> "identifier", lits |-> <<>>, exprs |-> <<>>]

\* a string literal without interpolation, of n characters of text
PlainString(n) == [kind |-> "string_literal", lits |-> <<n>>, exprs |-> <<>>]

InnerShapes == {Identifier, PlainString(0)}

\* string literals with 1..MaxExprs interpolated expressions
InterpolatedStrings ==
  UNION {{[kind |-> "string_literal", lits |-> l, exprs |-> e] :
            l \in [1..(n + 1) -> 0..MaxText],
            e \in [1..n -> SeqsUpTo(InnerShapes, MaxInner)]} : n \in 1..MaxExprs}

\* the buffers: a few plain tokens, or one interpolated string with at most
\* one identifier on either side
BufferShapes ==
  SeqsUpTo({Identifier} \cup {PlainString(n) : n \in 0..MaxText}, MaxItems)
  \cup {a \o <<str>> \o b :
          a \in SeqsUpTo({Identifier}, 1), str \in InterpolatedStrings,
          b \in SeqsUpTo({Identifier}, 1)}

RECURSIVE Sum(_)
Sum(s) == IF s = <<>> THEN 0 ELSE Head(s) + Sum(Tail(s))

RECURSIVE ShapeLen(_)
\* the characters of a token, and of a run of tokens with their blanks
ShapeLen(sh) ==
  IF sh.kind = "identifier" THEN 1
  ELSE 2 + Sum(sh.lits)
         + Sum([j \in 1..Len(sh.exprs) |->
                  3 + Sum([k \in 1..Len(sh.exprs[j]) |->
                             1 + ShapeLen(sh.exprs[j][k])])])

Token(kind, off, len) == [kind |-> kind, off |-> off, len |-> len]

Item(kind, off, len, segs) ==
  [kind |-> kind, off |-> off, len |-> len, segs |-> segs]

Segment(kind, loc, len, text) ==
  [Kind |-> kind, Loc |-> loc, Length |-> len, text |-> text]

RECURSIVE LayoutItems(_, _)
RECURSIVE LayoutSegments(_, _, _)

\* the token of shape sh at offset off; Lexer::getStringLiteralSegments
\* gives a string literal its segments
LayoutItem(sh, off) ==
  Item(sh.kind, off, ShapeLen(sh),
       IF sh.kind = "string_literal" THEN LayoutSegments(sh, off + 1, 1)
       ELSE <<>>)

\* the tokens of the shapes laid out after offset base
LayoutItems(shapes, base) ==
  IF shapes = <<>> THEN <<>>
  ELSE LET it == LayoutItem(Head(shapes), base + 1)
       IN  <<it>> \o LayoutItems(Tail(shapes), base + it.len + 1)

\* the segments of string sh from its j-th literal segment, which is at loc
LayoutSegments(sh, loc, j) ==
  LET lit == Segment("Literal", loc, sh.lits[j], <<>>) IN
  IF j > Len(sh.exprs) THEN <<lit>>
  ELSE LET paren == loc + sh.lits[j] + 1
           inner == LayoutItems(sh.exprs[j], paren)
           len   == 1 + Sum([k \in 1..Len(inner) |-> 1 + inner[k].len])
       IN  <<lit,
             Segment("Expr", paren, len,
                     <<Item("l_paren", paren, 1, <<>>)>> \o inner)>>
           \o LayoutSegments(sh, paren + len + 1, j + 1)

\* getBufferSize
BufferSize == IF src = <<>> THEN 0 ELSE src[Len(src)].off + src[Len(src)].len + 1

\* a Lexer over [Offset, EndOffset) of the text whose tokens are text: the
\* tokens it will produce before eof
Lexer(text, Offset, EndOffset) ==
  SelectSeq(text, LAMBDA t : Offset <= t.off /\ t.off + t.len <= EndOffset)

TzFrame(fn, pc) ==
  [fn |-> fn, pc |-> pc, Offset |-> 0, EndOffset |-> 0, split |-> FALSE,
   text |-> <<>>, L |-> <<>>, Tokens |-> <<>>, segs |-> <<>>, i |-> 0]

\* the frame of tokenize(SM, BufferID, Offset, EndOffset, KeepComments,
\* TokenizeInterpolatedString) over the text
tokenizeFrame(text, Offset, EndOffset, split) ==
  [TzFrame("tokenize", "entry") EXCEPT
     !.text = text, !.Offset = Offset, !.EndOffset = EndOffset,
     !.split = split]

NotTokenized == [done |-> FALSE, toks |-> <<>>]

NoTokenizing ==
  /\ src = <<>>
  /\ defaultSplit = FALSE
  /\ tz = <<>>
  /\ out = NotTokenized
  /\ emptyBack = FALSE

TzTop == Head(tz)

TzRunning(fn, pc) == tz # <<>> /\ TzTop.fn = fn /\ TzTop.pc = pc

TokUnchanged ==
  UNCHANGED <<inputVars, cursorVars, driverVars, listVars, stack, nSingle,
              delayVars, angleVars, src, defaultSplit>>

\* a caller tokenizes the whole buffer or the buffer from its second token
CallTokenize ==
  /\ tz = <<>>
  /\ ~out.done
  /\ \E split \in BOOLEAN, whole \in BOOLEAN :
       /\ whole \/ Len(src) >= 2
       /\ tz' = <<tokenizeFrame(src,
                    IF whole THEN 0 ELSE src[2].off,
                    IF whole THEN 0 ELSE BufferSize, split)>>
  /\ UNCHANGED <<out, emptyBack>>
  /\ TokUnchanged

\* tokenize, lines 191-196: the default end, the Lexer, the empty vector
TokenizeEntry ==
  /\ TzRunning("tokenize", "entry")
  /\ LET End == IF TzTop.Offset = 0 /\ TzTop.EndOffset = 0
                  THEN BufferSize ELSE TzTop.EndOffset
     IN  tz' = <<[TzTop EXCEPT !.pc = "lex", !.EndOffset = End,
                    !.L = Lexer(TzTop.text, TzTop.Offset, End),
                    !.Tokens = <<>>]>> \o Tail(tz)
  /\ UNCHANGED <<out, emptyBack>>
  /\ TokUnchanged

\* what L.lex produces next: the next token in range, else eof at the end
NextLexed(f) ==
  IF f.L = <<>> THEN Item("eof", f.EndOffset, 0, <<>>) ELSE Head(f.L)

\* the frame of getStringPartTokens(Tok, SM, BufID, Toks): Segments is what
\* the scanner finds in Tok
getStringPartTokensFrame(StrTok) ==
  [TzFrame("getStringPartTokens", "for") EXCEPT !.segs = StrTok.segs]

\* tokenize, lines 198-204: lex a token to the back of Tokens; a string
\* literal is taken off again and split when asked
TokenizeLex ==
  /\ TzRunning("tokenize", "lex")
  /\ LET t    == NextLexed(TzTop)
         rest == IF TzTop.L = <<>> THEN <<>> ELSE Tail(TzTop.L)
     IN  IF t.kind = "string_literal" /\ TzTop.split
           THEN tz' = <<getStringPartTokensFrame(t),
                        [TzTop EXCEPT !.pc = "while", !.L = rest]>>
                      \o Tail(tz)
           ELSE tz' = <<[TzTop EXCEPT !.pc = "while", !.L = rest,
                           !.Tokens = Append(@, Token(t.kind, t.off, t.len))]>>
                      \o Tail(tz)
  /\ UNCHANGED <<out, emptyBack>>
  /\ TokUnchanged

\* a tokenize that returns the eof token as well
withoutEof_Keeps(Tokens) == Tokens

\* line 206: Tokens.pop_back()
withoutEof(Tokens) == SubSeq(Tokens, 1, Len(Tokens) - 1)

\* tokenize returns Tokens: to its caller, or into line 182 of
\* getStringPartTokens, which inserts them at the end of Toks
TokenizeReturn(Tokens) ==
  IF Tail(tz) = <<>>
    THEN /\ tz' = <<>>
         /\ out' = [done |-> TRUE, toks |-> Tokens]
    ELSE /\ tz' = <<[tz[2] EXCEPT !.pc = "for", !.i = @ + 1],
                    [tz[3] EXCEPT !.Tokens = @ \o Tokens]>>
                  \o SubSeq(tz, 4, Len(tz))
         /\ UNCHANGED out

\* tokenize, lines 205-207: the loop test and the return.  back() of an
\* empty vector is undefined: the loop goes on or ends.
TokenizeWhile ==
  /\ TzRunning("tokenize", "while")
  /\ IF TzTop.Tokens = <<>>
       THEN /\ emptyBack' = TRUE
            /\ \/ tz' = <<[TzTop EXCEPT !.pc = "lex"]>> \o Tail(tz)
                  /\ UNCHANGED out
               \/ TokenizeReturn(<<>>)
     ELSE IF TzTop.Tokens[Len(TzTop.Tokens)].kind # "eof"
       THEN /\ tz' = <<[TzTop EXCEPT !.pc = "lex"]>> \o Tail(tz)
            /\ UNCHANGED <<out, emptyBack>>
       ELSE /\ TokenizeReturn(withoutEof(TzTop.Tokens))
            /\ UNCHANGED emptyBack
  /\ TokUnchanged

\* a splitter that forgets the closing quote
literalToken_NoClosingQuote(Seg, isFirst, isLast) ==
  Token("string_literal",
        Seg.Loc - (IF isFirst THEN 1 ELSE 0),
        Seg.Length + (IF isFirst THEN 1 ELSE 0))

\* getStringPartTokens, lines 159-173: the token of a literal segment
literalToken(Seg, isFirst, isLast) ==
  Token("string_literal",
        Seg.Loc - (IF isFirst THEN 1 ELSE 0),
        Seg.Length + (IF isFirst THEN 1 ELSE 0) + (IF isLast THEN 1 ELSE 0))

\* getStringPartTokens, lines 154-183: one pass of the for loop
StringPartSegment ==
  /\ TzRunning("getStringPartTokens", "for")
  /\ TzTop.i # Len(TzTop.segs)
  /\ LET Seg     == TzTop.segs[TzTop.i + 1]
         isFirst == TzTop.i = 0
         isLast  == TzTop.i = Len(TzTop.segs) - 1
     IN  IF Seg.Kind = "Literal"
           THEN tz' = <<[TzTop EXCEPT !.i = @ + 1],
                        [tz[2] EXCEPT !.Tokens =
                           Append(@, literalToken(Seg, isFirst, isLast))]>>
                      \o SubSeq(tz, 3, Len(tz))
           ELSE tz' = <<tokenizeFrame(Seg.text, Seg.Loc,
                                      Seg.Loc + Seg.Length, defaultSplit),
                        [TzTop EXCEPT !.pc = "call"]>>
                      \o Tail(tz)
  /\ UNCHANGED <<out, emptyBack>>
  /\ TokUnchanged

\* getStringPartTokens, lines 154 and 185: the loop is over
StringPartReturn ==
  /\ TzRunning("getStringPartTokens", "for")
  /\ TzTop.i = Len(TzTop.segs)
  /\ tz' = Tail(tz)
  /\ UNCHANGED <<out, emptyBack>>
  /\ TokUnchanged

-----------------------------------------------------------------------------
(* The partial consumption of '<' and '>'.                                 *)
(*                                                                         *)
(* Here the buffer is a sequence of characters and a location is an index  *)
(* in it.  The lexer skips blanks and takes the longest run of operator    *)
(* characters, or of letters, as one token.                                *)

Characters == {"<", ">", "=", "a", " "}

OperatorCharacters == {"<", ">", "="}

CharClass(c) ==
  IF c \in OperatorCharacters THEN "oper"
  ELSE IF c = " " THEN "blank" ELSE "identifier"

RECURSIVE SkipBlanks(_)
\* the first location from loc on that holds no blank, or the end
SkipBlanks(loc) ==
  IF loc <= Len(chars) /\ chars[loc] = " " THEN SkipBlanks(loc + 1) ELSE loc

RECURSIVE RunEnd(_, _)
\* the end of the run of characters of class cls from loc on
RunEnd(loc, cls) ==
  IF loc <= Len(chars) /\ CharClass(chars[loc]) = cls
    THEN RunEnd(loc + 1, cls) ELSE loc

\* the token the lexer produces from loc on
LexAt(loc) ==
  LET start == SkipBlanks(loc) IN
  IF start > Len(chars) THEN [kind |-> "eof", loc |-> start, len |-> 0]
  ELSE [kind |-> CharClass(chars[start]), loc |-> start,
        len |-> RunEnd(start, CharClass(chars[start])) - start]

\* Lexer::getTokenAt: the token that starts at loc, from a lexer of its own
getTokenAt(loc) == LexAt(loc)

startsWithLess(T) == T.kind = "oper" /\ chars[T.loc] = "<"

startsWithGreater(T) == T.kind = "oper" /\ chars[T.loc] = ">"

\* a parser primed on the buffer: Tok, PreviousLoc, where L lexes next, and
\* the operation called last with the location it returned
PrimedCursor ==
  [Tok |-> LexAt(1), PreviousLoc |-> 0,
   next |-> LexAt(1).loc + LexAt(1).len,
   op |-> "none", ret |-> 0, n |-> 0, fault |-> FALSE]

NoAngle ==
  /\ chars = <<>>
  /\ cur = [PrimedCursor EXCEPT !.next = 1]

AngleUnchanged ==
  UNCHANGED <<inputVars, cursorVars, driverVars, listVars, stack, nSingle,
              delayVars, tokVars, chars>>

\* an assertion has failed in op
Faulted(op) == [cur EXCEPT !.op = op, !.n = @ + 1, !.fault = TRUE]

\* consumeToken, lines 253-259, on this cursor, called as op
Consumed1(op) ==
  IF cur.Tok.kind = "eof" THEN Faulted(op)
  ELSE LET T == LexAt(cur.next) IN
       [cur EXCEPT !.Tok = T, !.next = T.loc + T.len,
                   !.PreviousLoc = cur.Tok.loc,
                   !.op = op, !.ret = cur.Tok.loc, !.n = @ + 1]

\* a split that re-lexes two characters on
remainderLoc_Two(Loc) == Loc + 2

\* lines 273 and 285: Loc.getAdvancedLoc(1)
remainderLoc(Loc) == Loc + 1

\* lines 271-274 and 283-286: skip the starting character of the token
SplitOff(op) ==
  [cur EXCEPT !.Tok = getTokenAt(remainderLoc(cur.Tok.loc)),
              !.op = op, !.ret = cur.Tok.loc, !.n = @ + 1]

CursorRuns == ~cur.fault /\ cur.n < MaxOps

\* a caller consumes the current token
CursorConsumeToken ==
  /\ CursorRuns
  /\ cur' = Consumed1("consumeToken")
  /\ AngleUnchanged

\* consumeStartingLess, lines 265-275
ConsumeStartingLess ==
  /\ CursorRuns
  /\ cur' = IF ~startsWithLess(cur.Tok) THEN Faulted("consumeStartingLess")
            ELSE IF cur.Tok.len = 1 THEN Consumed1("consumeStartingLess")
            ELSE SplitOff("consumeStartingLess")
  /\ AngleUnchanged

\* consumeStartingGreater, lines 277-287
ConsumeStartingGreater ==
  /\ CursorRuns
  /\ cur' = IF ~startsWithGreater(cur.Tok)
              THEN Faulted("consumeStartingGreater")
            ELSE IF cur.Tok.len = 1 THEN Consumed1("consumeStartingGreater")
            ELSE SplitOff("consumeStartingGreater")
  /\ AngleUnchanged

-----------------------------------------------------------------------------
(* Parser construction and delayed parsing. *)

Buffers == 1..NumBuffers

\* a ParserPosition: invalid, or a location in a buffer
NoPosition == [valid |-> FALSE, buf |-> 0, loc |-> 0]

PositionsIn(b) == {[valid |-> TRUE, buf |-> b, loc |-> 1]}

\* the kinds Lexer::lex produces; tok::NUM_TOKENS is not one of them
LexerKinds == AllKinds \cup {"eof"}

\* the kinds of the token found at a restored position
RestoredKinds == {"identifier", "unknown", "eof"}

\* a declaration: a function with an unparsed body, with a parsed body or
\* without a body, or another declaration, in a buffer, with at most one
\* function nested in it
DeclShapes ==
  {[kind |-> k, buf |-> b, inner |-> i] :
     k \in {"func_unparsed", "func_nobody"}, b \in Buffers, i \in {"none"}}
  \cup {[kind |-> k, buf |-> b, inner |-> i] :
     k \in {"func_parsed", "other"}, b \in Buffers,
     i \in {"none", "func_unparsed"}}

NoFaults == [factoryAssert |-> FALSE, nullDeref |-> FALSE]

DelayIdle == [pc |-> "idle", i |-> 0, inner |-> FALSE, parses |-> 0]

\* the state of the delayed parsing while the parser's operations are checked
NoDelayedParsing ==
  /\ ps = [pos |-> NoPosition, delayed |-> 0]
  /\ factory = FALSE
  /\ decls = <<>>
  /\ dp = DelayIdle
  /\ parsers = <<>>
  /\ faults = NoFaults

\* a constructor that restores a valid position whatever its buffer
restoresPosition_AnyBuffer(took, BufferID) == took.valid

\* lines 237-238: the position taken is valid and lies in this buffer
restoresPosition(took, BufferID) == took.valid /\ took.buf = BufferID

\* a constructor that reads the saved position and leaves it in place
takeParserPosition_Keeps == ps

\* State->takeParserPosition() at line 236: the state afterwards
takeParserPosition == [ps EXCEPT !.pos = NoPosition]

\* Parser::Parser, lines 214-242: the token is the sentinel and the lexer at
\* the start of the buffer, unless the position taken from the state is
\* restored, which leaves the token lexed there (of kind k)
NewParser(who, BufferID, k) ==
  LET took == ps.pos IN
  [who |-> who, buf |-> BufferID, took |-> took,
   cursor |-> IF restoresPosition(took, BufferID)
                THEN [kind |-> k, off |-> took.loc]
                ELSE [kind |-> "NUM_TOKENS", off |-> 0],
   cb |-> "null", nCreated |-> 0, createdAtParse |-> 0,
   parsed |-> FALSE, nDone |-> 0, doneAtParse |-> 0]

Construct(who, BufferID) ==
  /\ \E k \in RestoredKinds :
       /\ restoresPosition(ps.pos, BufferID) \/ k = "identifier"
       /\ parsers' = Append(parsers, NewParser(who, BufferID, k))
  /\ ps' = takeParserPosition

Last == Len(parsers)

DelayedAt(pc) == dp.pc = pc

\* the declaration the walker is at
Current ==
  IF dp.inner THEN [kind |-> decls[dp.i].inner, buf |-> decls[dp.i].buf,
                    inner |-> "none"]
  ELSE decls[dp.i]

\* the walker's next stop when walkToDeclPre has returned descend
Walked(descend) ==
  IF descend /\ ~dp.inner /\ decls[dp.i].inner # "none"
    THEN [dp EXCEPT !.pc = "walk", !.inner = TRUE]
    ELSE [dp EXCEPT !.pc = "walk", !.i = @ + 1, !.inner = FALSE]

ParserUnchanged ==
  UNCHANGED <<inputVars, cursorVars, driverVars, listVars, stack, nSingle,
              tokVars, angleVars>>

\* parseIntoTranslationUnit, lines 118-125: a Parser on a buffer
ParseIntoTranslationUnit ==
  /\ DelayedAt("idle")
  /\ dp.parses < MaxParses
  /\ \E b \in Buffers : Construct("main", b)
  /\ dp' = [dp EXCEPT !.pc = "main", !.parses = @ + 1]
  /\ UNCHANGED <<factory, decls, faults>>
  /\ ParserUnchanged

\* parseIntoTranslationUnit, lines 130-133: the parse, which may leave a
\* position in its buffer and a delayed declaration in the state
ParseTranslationUnit ==
  /\ DelayedAt("main")
  /\ parsers' = [parsers EXCEPT ![Last].parsed = TRUE]
  /\ \E p \in {ps.pos} \cup PositionsIn(parsers[Last].buf),
        d \in {ps.delayed, parsers[Last].buf} :
       ps' = [pos |-> p, delayed |-> d]
  /\ dp' = [dp EXCEPT !.pc = "idle"]
  /\ UNCHANGED <<factory, decls, faults>>
  /\ ParserUnchanged

\* performDelayedParsing, lines 136-141: the walk begins
PerformDelayedParsing ==
  /\ DelayedAt("idle")
  /\ dp' = [dp EXCEPT !.pc = "walk", !.i = 1, !.inner = FALSE]
  /\ UNCHANGED <<ps, factory, decls, parsers, faults>>
  /\ ParserUnchanged

\* walkToDeclPre, lines 63-73: a function with an unparsed body is parsed;
\* the walk descends unless the function has a parsed body
WalkToDeclPre ==
  /\ DelayedAt("walk")
  /\ dp.i <= Len(decls)
  /\ dp' = IF Current.kind = "func_unparsed"
             THEN [dp EXCEPT !.pc = "construct"]
             ELSE Walked(Current.kind # "func_parsed")
  /\ UNCHANGED <<ps, factory, decls, parsers, faults>>
  /\ ParserUnchanged

\* parseFunctionBody, lines 76-82: the sub-parser
FunctionBodyParser ==
  /\ DelayedAt("construct")
  /\ Construct("body", Current.buf)
  /\ dp' = [dp EXCEPT !.pc = "callbacks"]
  /\ UNCHANGED <<factory, decls, faults>>
  /\ ParserUnchanged

\* the callbacks a sub-parser gets from the factory
WithCallbacks(p) == [p EXCEPT !.cb = "instance", !.nCreated = @ + 1]

\* lines 84-89
FunctionBodyCallbacks ==
  /\ DelayedAt("callbacks")
  /\ parsers' = [parsers EXCEPT
                   ![Last] = IF factory THEN WithCallbacks(@) ELSE @]
  /\ dp' = [dp EXCEPT !.pc = "parse"]
  /\ UNCHANGED <<ps, factory, decls, faults>>
  /\ ParserUnchanged

\* the sub-parser has parsed
Parsed(p) == [p EXCEPT !.parsed = TRUE, !.createdAtParse = p.nCreated,
                       !.doneAtParse = p.nDone]

\* line 90: parseDeclFuncBodyDelayed gives the function its body
FunctionBodyParse ==
  /\ DelayedAt("parse")
  /\ parsers' = [parsers EXCEPT ![Last] = Parsed(@)]
  /\ decls' = IF dp.inner
                THEN [decls EXCEPT ![dp.i].inner = "func_parsed"]
                ELSE [decls EXCEPT ![dp.i].kind = "func_parsed"]
  /\ dp' = [dp EXCEPT !.pc = "done"]
  /\ UNCHANGED <<ps, factory, faults>>
  /\ ParserUnchanged

\* line 91: CodeCompletion->doneParsing(), whatever CodeCompletion holds.
\* Through a null pointer the call is undefined: the program crashes or
\* goes on.
FunctionBodyDone ==
  /\ DelayedAt("done")
  /\ IF parsers[Last].cb = "instance"
       THEN /\ parsers' = [parsers EXCEPT ![Last].nDone = @ + 1]
            /\ dp' = Walked(TRUE)
            /\ UNCHANGED faults
       ELSE /\ faults' = [faults EXCEPT !.nullDeref = TRUE]
            /\ UNCHANGED parsers
            /\ \/ dp' = [dp EXCEPT !.pc = "crashed"]
               \/ dp' = Walked(TRUE)
  /\ UNCHANGED <<ps, factory, decls>>
  /\ ParserUnchanged

\* a performDelayedParsing that parses the delayed declaration regardless
wantsTopLevel_Always == TRUE

\* line 145: if (CodeCompletionFactory)
wantsTopLevel == factory

\* lines 145-147: after the walk
WalkFinished ==
  /\ DelayedAt("walk")
  /\ dp.i > Len(decls)
  /\ dp' = [dp EXCEPT !.pc = IF wantsTopLevel THEN "toplevel" ELSE "finished"]
  /\ UNCHANGED <<ps, factory, decls, parsers, faults>>
  /\ ParserUnchanged

\* parseDelayedTopLevelDecl, lines 99-103
TopLevelEntry ==
  /\ DelayedAt("toplevel")
  /\ faults' = [faults EXCEPT !.factoryAssert = @ \/ ~factory]
  /\ dp' = [dp EXCEPT !.pc = IF ~factory THEN "crashed"
                             ELSE IF ps.delayed = 0 THEN "finished"
                             ELSE "tl_construct"]
  /\ UNCHANGED <<ps, factory, decls, parsers>>
  /\ ParserUnchanged

\* lines 105-107
TopLevelParser ==
  /\ DelayedAt("tl_construct")
  /\ Construct("toplevel", ps.delayed)
  /\ dp' = [dp EXCEPT !.pc = "tl_callbacks"]
  /\ UNCHANGED <<factory, decls, faults>>
  /\ ParserUnchanged

\* lines 109-111
TopLevelCallbacks ==
  /\ DelayedAt("tl_callbacks")
  /\ parsers' = [parsers EXCEPT ![Last] = WithCallbacks(@)]
  /\ dp' = [dp EXCEPT !.pc = "tl_parse"]
  /\ UNCHANGED <<ps, factory, decls, faults>>
  /\ ParserUnchanged

\* line 112: parseTopLevelCodeDeclDelayed takes the delayed declaration
TopLevelParse ==
  /\ DelayedAt("tl_parse")
  /\ parsers' = [parsers EXCEPT ![Last] = Parsed(@)]
  /\ ps' = [ps EXCEPT !.delayed = 0]
  /\ dp' = [dp EXCEPT !.pc = "tl_done"]
  /\ UNCHANGED <<factory, decls, faults>>
  /\ ParserUnchanged

\* line 113
TopLevelDone ==
  /\ DelayedAt("tl_done")
  /\ parsers' = [parsers EXCEPT ![Last].nDone = @ + 1]
  /\ dp' = [dp EXCEPT !.pc = "finished"]
  /\ UNCHANGED <<ps, factory, decls, faults>>
  /\ ParserUnchanged

DelayedInit ==
  /\ toks = <<"eof">>
  /\ eofText = ""
  /\ defaultStop = FALSE
  /\ pos = 1
  /\ prevLoc = InvalidLoc
  /\ stack = <<>>
  /\ lexPastEof = FALSE
  /\ call = NoCall
  /\ ncall = 0
  /\ startPos = 1
  /\ startPrev = InvalidLoc
  /\ nSingle = 0
  /\ pl = NoList
  /\ diags = <<>>
  /\ cb = NoCallbacks
  /\ ret = NotReturned
  /\ ps = [pos |-> NoPosition, delayed |-> 0]
  /\ factory \in BOOLEAN
  /\ decls \in SeqsUpTo(DeclShapes, MaxDecls)
  /\ dp = DelayIdle
  /\ parsers = <<>>
  /\ faults = NoFaults
  /\ NoTokenizing
  /\ NoAngle

DelayedNext ==
  \/ ParseIntoTranslationUnit
  \/ ParseTranslationUnit
  \/ PerformDelayedParsing
  \/ WalkToDeclPre
  \/ FunctionBodyParser
  \/ FunctionBodyCallbacks
  \/ FunctionBodyParse
  \/ FunctionBodyDone
  \/ WalkFinished
  \/ TopLevelEntry
  \/ TopLevelParser
  \/ TopLevelCallbacks
  \/ TopLevelParse
  \/ TopLevelDone

DelayedSpec == DelayedInit /\ [][DelayedNext]_vars

AngleInit ==
  /\ toks = <<"eof">>
  /\ eofText = ""
  /\ defaultStop = FALSE
  /\ pos = 1
  /\ prevLoc = InvalidLoc
  /\ stack = <<>>
  /\ lexPastEof = FALSE
  /\ call = NoCall
  /\ ncall = 0
  /\ startPos = 1
  /\ startPrev = InvalidLoc
  /\ nSingle = 0
  /\ pl = NoList
  /\ diags = <<>>
  /\ cb = NoCallbacks
  /\ ret = NotReturned
  /\ NoDelayedParsing
  /\ NoTokenizing
  /\ chars \in SeqsUpTo(Characters, MaxChars)
  /\ cur = PrimedCursor

AngleNext ==
  \/ CursorConsumeToken
  \/ ConsumeStartingLess
  \/ ConsumeStartingGreater

AngleSpec == AngleInit /\ [][AngleNext]_vars

TokInit ==
  /\ toks = <<"eof">>
  /\ eofText = ""
  /\ defaultStop = FALSE
  /\ pos = 1
  /\ prevLoc = InvalidLoc
  /\ stack = <<>>
  /\ lexPastEof = FALSE
  /\ call = NoCall
  /\ ncall = 0
  /\ startPos = 1
  /\ startPrev = InvalidLoc
  /\ nSingle = 0
  /\ pl = NoList
  /\ diags = <<>>
  /\ cb = NoCallbacks
  /\ ret = NotReturned
  /\ NoDelayedParsing
  /\ \E shapes \in BufferShapes : src = LayoutItems(shapes, 0 - 1)
  /\ defaultSplit \in BOOLEAN
  /\ tz = <<>>
  /\ out = NotTokenized
  /\ emptyBack = FALSE
  /\ NoAngle

TokNext ==
  \/ CallTokenize
  \/ TokenizeEntry
  \/ TokenizeLex
  \/ TokenizeWhile
  \/ StringPartSegment
  \/ StringPartReturn

TokSpec == TokInit /\ [][TokNext]_vars

ListInit ==
  /\ toks \in ListStreams
  /\ eofText \in {"", ")", "]"}
  /\ defaultStop \in BOOLEAN
  /\ pos = 1
  /\ prevLoc = LeftLoc
  /\ stack = <<>>
  /\ lexPastEof = FALSE
  /\ call = NoCall
  /\ ncall = 0
  /\ startPos = 1
  /\ startPrev = LeftLoc
  /\ nSingle = 0
  /\ pl = NoList
  /\ diags = <<>>
  /\ cb = NoCallbacks
  /\ ret = NotReturned
  /\ NoDelayedParsing
  /\ NoTokenizing
  /\ NoAngle

ListNext ==
  \/ CallParseList
  \/ ParseListEntry
  \/ ParseListStraySeparator
  \/ ParseListElement
  \/ ParseListCheck
  \/ ParseListSkipped
  \/ ParseListClose
  \/ SkipSingleSwitch
  \/ SkipSingleClose
  \/ SkipUntil

ListSpec == ListInit /\ [][ListNext]_vars


-----------------------------------------------------------------------------

SkipInit ==
  /\ toks \in TokenStreams
  /\ eofText = ""
  /\ defaultStop \in BOOLEAN
  /\ pos = 1
  /\ prevLoc = InvalidLoc
  /\ stack = <<>>
  /\ lexPastEof = FALSE
  /\ call = NoCall
  /\ ncall = 0
  /\ startPos = 1
  /\ startPrev = InvalidLoc
  /\ nSingle = 0
  /\ pl = NoList
  /\ diags = <<>>
  /\ cb = NoCallbacks
  /\ ret = NotReturned
  /\ NoDelayedParsing
  /\ NoTokenizing
  /\ NoAngle

SkipNext ==
  \/ CallSkip
  \/ SkipSingleSwitch
  \/ SkipSingleClose
  \/ SkipUntil
  \/ SkipUntilAnyOperator
  \/ SkipUntilDeclRBrace
  \/ SkipUntilDeclStmtRBrace

SkipSpec == SkipInit /\ [][SkipNext]_vars

\* the recovery engine and the list parser under one driver
Init == SkipInit \/ ListInit

Next ==
  \/ CallSkip
  \/ CallParseList
  \/ SkipSingleSwitch
  \/ SkipSingleClose
  \/ SkipUntil
  \/ SkipUntilAnyOperator
  \/ SkipUntilDeclRBrace
  \/ SkipUntilDeclStmtRBrace
  \/ ParseListEntry
  \/ ParseListStraySeparator
  \/ ParseListElement
  \/ ParseListCheck
  \/ ParseListSkipped
  \/ ParseListClose

Spec == Init /\ [][Next]_vars

-----------------------------------------------------------------------------
(* Properties of the recovery engine. *)

\* the operation the driver called has returned
Returned == stack = <<>> /\ ncall >= 1 /\ ~lexPastEof

\* tokens before eof from the call's start
Remaining == Len(toks) - startPos

\* The brackets still open after tokens p .. q-1, innermost first, each as
\* the closer it waits for: an opener opens a group, the closer of the
\* innermost open group closes it, every other token is plain.
RECURSIVE OpenAfter(_, _, _)
OpenAfter(p, q, open) ==
  IF p >= q THEN open
  ELSE LET k == toks[p] IN
       OpenAfter(p + 1, q,
                 IF k \in Openers THEN <<Closer(k)>> \o open
                 ELSE IF open # <<>> /\ k = Head(open) THEN Tail(open)
                 ELSE open)

\* tokens p .. q-1 are exactly the group of the opener at p
GroupOf(p, q) ==
  /\ q > p
  /\ OpenAfter(p, q, <<>>) = <<>>
  /\ \A r \in (p + 1)..(q - 1) : OpenAfter(p, r, <<>>) # <<>>

SkipSingleOnOpener ==
  /\ Returned
  /\ call.op = "skipSingle"
  /\ toks[startPos] \in Openers

SkipUntilSteps ==
  call.op = "skipUntil" =>
    /\ nSingle <= (pos - startPos) + 1
    /\ nSingle <= Remaining
    /\ Returned => nSingle <= pos - startPos

\* C2 as stated: skipUntil takes at most as many skipSingle steps as there
\* are remaining tokens and returns at eof, at one of its two targets or,
\* when asked to stop there, at a code-completion marker.
C2_SkipUntilStopsAtTarget ==
  /\ SkipUntilSteps
  /\ (Returned /\ call.op = "skipUntil") =>
       \/ Tok \in {"eof", call.t1, call.t2}
       \/ call.stop /\ Tok = "code_complete"

\* C2 amended: as above, except that with both targets the sentinel
\* tok::unknown skipUntil returns at once, wherever the cursor is, having
\* consumed nothing.
C2_SkipUntilTerminates ==
  /\ SkipUntilSteps
  /\ (Returned /\ call.op = "skipUntil") =>
       IF call.t1 = "unknown" /\ call.t2 = "unknown"
         THEN pos = startPos /\ prevLoc = startPrev /\ nSingle = 0
         ELSE \/ Tok \in {"eof", call.t1, call.t2}
              \/ call.stop /\ Tok = "code_complete"

C2_Witness ==
  /\ Returned
  /\ call.op = "skipUntil"
  /\ call.stop
  /\ toks[startPos] \in Openers
  /\ nSingle >= 3
  /\ Tok = "code_complete"

\* C3: skipSingle on an opening bracket returns having consumed exactly the
\* opener's group (bracket nesting back at zero), unless it returns at eof;
\* a return at a code-completion marker it was asked to stop at is let
\* through here as well.
C3_SkipSingleBalanced ==
  (/\ SkipSingleOnOpener
   /\ Tok # "eof"
   /\ ~(call.stop /\ Tok = "code_complete")) => GroupOf(startPos, pos)

SkipUntilVariants ==
  {"skipUntil", "skipUntilAnyOperator", "skipUntilDeclRBrace",
   "skipUntilDeclStmtRBrace"}

\* the stop condition of call c holds of the token at p followed by next
StopsAt(c, k, next) ==
  CASE c.op = "skipUntil" ->
         \/ c.t1 = "unknown" /\ c.t2 = "unknown"
         \/ k \in {"eof", c.t1, c.t2}
         \/ c.stop /\ k = "code_complete"
    [] c.op = "skipUntilAnyOperator" -> k = "eof" \/ isAnyOperator(k)
    [] c.op = "skipUntilDeclRBrace" ->
         k \in {"eof", "r_brace"} \/ isStartOfDecl(k, next)
    [] c.op = "skipUntilDeclStmtRBrace" ->
         \/ k \in {"eof", "r_brace"}
         \/ isStartOfStmt(k)
         \/ isStartOfDecl(k, next)
         \/ c.stop /\ k = "code_complete"

StartedAtStop ==
  StopsAt(call, toks[startPos],
          toks[IF startPos < Len(toks) THEN startPos + 1 ELSE startPos])

Unmoved == pos = startPos /\ prevLoc = startPrev

\* C10: a skip-until variant called on a token that satisfies its stop
\* condition consumes nothing and leaves the current and previous locations
\* alone, and a second call right after the first, with the same arguments,
\* consumes nothing.
C10_SkipUntilIdempotent ==
  (Returned /\ call.op \in SkipUntilVariants) =>
    /\ StartedAtStop => Unmoved
    /\ ncall = 2 => Unmoved

C10_Witness ==
  /\ Returned
  /\ call.op = "skipUntilDeclRBrace"
  /\ ncall = 2
  /\ startPos > 1
  /\ Tok = "kw_protocol"
  /\ Unmoved

-----------------------------------------------------------------------------
(* Properties of the list parser. *)

\* parseList runs to completion once called
ListLive == ListInit /\ [][ListNext]_vars /\ WF_vars(ListNext)

ListReturned == call.op = "parseList" /\ stack = <<>> /\ ret.via # "none"

InParseList(pc) == stack # <<>> /\ Top.fn = "parseList" /\ Top.pc = pc

\* each pass of the main loop consumed a token; after the forced skip the
\* cursor has moved or parseList leaves the loop; the return from there is
\* a failure
ListProgress ==
  /\ pl.progress
  /\ InParseList("skipped") =>
       \/ pos > pl.StartLoc
       \/ Tok \in {pl.RightK, "eof", "code_complete"}
  /\ ret.via = "noProgress" => ret.value

\* C1: parseList terminates: every pass of its main loop consumes at least
\* one token or leaves the loop, a callback that consumes nothing with no
\* separator after it makes parseList advance through the forced skipUntil
\* or return failure, and parseList returns.
C1_ParseListTerminates == []ListProgress /\ <>ListReturned

C1_Witness ==
  /\ ListReturned
  /\ ret.via = "close"
  /\ toks[1] = "l_paren"
  /\ diags = <<Diag("expected_separator", 1, "insert", LeftLoc, ",")>>
  /\ pl.StartLoc = 1
  /\ pos = 4

\* the list body: the tokens before a closing parenthesis that ends the input
ListBody == SubSeq(toks, 1, Len(toks) - 2)

\* the input is a closed list of identifiers whose only defect is a
\* separator missing between the elements at i and i + 1
OneSeparatorMissing(i) ==
  /\ Len(toks) >= 2
  /\ toks[Len(toks) - 1] = "r_paren"
  /\ \A j \in 1..Len(ListBody) : ListBody[j] \in {"identifier", "comma"}
  /\ Defects(ListBody) = {i}
  /\ i \in 1..(Len(ListBody) - 1)
  /\ ListBody[i] = "identifier"

Elements == {j \in 1..Len(ListBody) : ListBody[j] = "identifier"}

MandatoryCommaList ==
  /\ ListReturned
  /\ pl.RightK = "r_paren"
  /\ pl.SeparatorK = "comma"
  /\ ~pl.OptionalSep

\* C4: with a mandatory separator and a callback that consumes exactly one
\* element token per call, parseList over a closed list with exactly one
\* separator missing, between the elements at i and i + 1, emits exactly one
\* diagnostic, reported at the element after the gap with the fix-it
\* inserting the separator at the end of the element before it, calls the
\* callback once for every element and consumes the close delimiter.
C4_OneMissingSeparator ==
  \A i \in 1..MaxElems :
    (MandatoryCommaList /\ OneSeparatorMissing(i) /\ cb.oneEach) =>
      /\ diags = <<Diag("expected_separator", i + 1, "insert", i, ",")>>
      /\ cb.count = Cardinality(Elements)
      /\ ret.via = "close"
      /\ pl.RightLoc = Len(toks) - 1
      /\ Tok = "eof"

C4_Witness ==
  /\ MandatoryCommaList
  /\ cb.oneEach
  /\ toks = <<"identifier", "comma", "identifier", "identifier", "comma",
              "identifier", "r_paren", "eof">>
  /\ cb.count = 4
  /\ Len(diags) = 1

UnmatchedReported ==
  \E i \in 1..(Len(diags) - 1) :
    /\ diags[i] = Diag("ErrorDiag", pos, "none", 0, "")
    /\ diags[i + 1] = Diag(OtherNote(pl.RightK), LeftLoc, "none", 0, "")

\* C5: whenever parseList finishes without having found the close delimiter
\* (the eof spelled as the close apart), the caller's errorDiagnostic has
\* been emitted at the failure location, followed by the note at
\* openLocation that names the unmatched opener.
C5_UnmatchedCloseReported ==
  (ListReturned /\ pl.RightLoc = 0) => UnmatchedReported

\* a mandatory separator is found missing after an element (line 450 is
\* reached with OptionalSep false)
SeparatorMissing ==
  /\ InParseList("check")
  /\ ~lexPastEof
  /\ Tok # pl.RightK
  /\ Tok # pl.SeparatorK
  /\ ~pl.OptionalSep

EofSpelledClose == Tok = "eof" /\ eofText = ")"

\* C6 as stated: when an element has been parsed, the current token is
\* neither the close delimiter (nor an eof spelled as it) nor the separator
\* and the separator is mandatory, parseList emits the caller's errorDiagnostic with a fix-it
\* inserting the separator at the end of the previous token, marks the
\* result invalid and goes on with the loop instead of returning.
C6_EmitsErrorDiagnostic ==
  [][(SeparatorMissing /\ ~EofSpelledClose) =>
       /\ diags' = Append(diags, Diag("ErrorDiag", pos, "insert", prevLoc,
                                      SeparatorText))
       /\ pl'.Invalid
       /\ ret' = ret
       /\ stack' # <<>>]_vars

\* C6 amended: in that situation, unless the current token is an eof
\* spelled ")", parseList emits the fixed diagnostic expected_separator (not
\* the caller's errorDiagnostic) at the current token, with a fix-it
\* inserting the separator at the end of the previous token, marks the
\* result invalid and does not return there: it goes on to the next pass of
\* the loop if the pass consumed a token, and to the forced skipUntil
\* otherwise.
C6_EmitsExpectedSeparator ==
  [][(SeparatorMissing /\ ~EofSpelledClose) =>
       /\ diags' = Append(diags, Diag("expected_separator", pos, "insert",
                                      prevLoc, SeparatorText))
       /\ pl'.Invalid
       /\ ret' = ret
       /\ IF pos = pl.StartLoc
            THEN /\ Len(stack') = Len(stack) + 1
                 /\ Head(stack') = skipUntilFrame(pl.RightK, pl.SeparatorK,
                                                  defaultStop)
            ELSE InParseList("loop")']_vars

C6_Witness ==
  /\ InParseList("loop")
  /\ diags # <<>>
  /\ diags[Len(diags)] = Diag("expected_separator", pos, "insert", pos - 1, ";")
  /\ pl.Invalid
  /\ ~cb.failed
  /\ pos > pl.StartLoc
  /\ Tok = "identifier"

-----------------------------------------------------------------------------
(* Properties of the cursor. *)

\* C8: the recovery operations skipUntil, skipUntilAnyOperator,
\* skipUntilDeclRBrace and skipUntilDeclStmtRBrace, the skipSingle calls
\* they make, and parseList with a callback that never consumes eof never
\* call consumeToken while the current token is eof.  (skipSingle called
\* on eof by the driver itself does.)
C8_NeverLexPastEof == call.op # "skipSingle" => ~lexPastEof

C8_Witness ==
  /\ call.op = "parseList"
  /\ Len(stack) >= 5
  /\ Top.fn = "skipUntil"
  /\ Tok = "eof"

-----------------------------------------------------------------------------
(* Claims about parser construction and delayed parsing. *)

SubParsers == {i \in 1..Len(parsers) : parsers[i].who # "main"}

\* the sub-parser's function has returned
SubParserDone(i) ==
  \/ i < Last
  \/ dp.pc \in {"walk", "toplevel", "finished"}

\* C7: every sub-parser of performDelayedParsing gets, when a factory is
\* present, exactly one callback instance before its parse starts and
\* exactly one doneParsing after the parse; without a factory it gets no
\* instance, doneParsing is called on nothing and no absent callback is
\* dereferenced.
C7_CallbacksPerSubParser ==
  /\ ~faults.nullDeref
  /\ \A i \in SubParsers :
       LET p == parsers[i] IN
       IF factory
         THEN /\ p.parsed => p.createdAtParse = 1 /\ p.doneAtParse = 0
              /\ p.nCreated <= 1 /\ p.nDone <= 1
              /\ SubParserDone(i) => p.nCreated = 1 /\ p.nDone = 1
         ELSE p.cb = "null" /\ p.nCreated = 0 /\ p.nDone = 0

\* C9: a constructed Parser's token is the sentinel, which no lexer kind
\* equals, at the start of the buffer, unless the position taken from the
\* state was valid and in the parser's buffer; exactly then the cursor is at
\* the position taken.
C9_ConstructorCursor ==
  /\ "NUM_TOKENS" \notin LexerKinds
  /\ "unknown" \in LexerKinds
  /\ \A i \in 1..Len(parsers) :
       LET p == parsers[i] IN
       IF p.took.valid /\ p.took.buf = p.buf
         THEN p.cursor.off = p.took.loc /\ p.cursor.kind \in LexerKinds
         ELSE p.cursor = [kind |-> "NUM_TOKENS", off |-> 0]

\* a sub-parser restored the position the main parser left in its buffer,
\* after another parser was constructed unprimed
C9_Witness ==
  /\ Len(parsers) = 2
  /\ parsers[1].cursor.kind = "NUM_TOKENS"
  /\ parsers[2].who = "body"
  /\ parsers[2].took.valid
  /\ parsers[2].took.buf = parsers[2].buf
  /\ parsers[2].cursor = [kind |-> "unknown", off |-> parsers[2].took.loc]

-----------------------------------------------------------------------------
(* Further claims about the list parser. *)

\* how a close delimiter is spelled
Spelling(K) ==
  CASE K = "r_paren"  -> ")"
    [] K = "r_square" -> "]"
    [] K = "r_brace"  -> "}"

\* parseList returns here as if the eof were the close delimiter
AcceptsEofAsClose ==
  /\ ret' = [via |-> "eofClose", value |-> pl.Invalid]
  /\ pl' = [pl EXCEPT !.RightLoc = pos]
  /\ stack' = Tail(stack)
  /\ UNCHANGED <<pos, prevLoc, diags>>

\* C11: after an element callback has returned at eof, parseList takes the
\* eof for the close delimiter exactly when the eof's text is the spelling
\* of the list's RightK: it then returns Invalid with RightLoc at the eof,
\* consuming nothing and emitting nothing; otherwise it does not return so.
C11_EofCloseOwnSpelling ==
  [][(InParseList("check") /\ ~lexPastEof /\ Tok = "eof") =>
       IF eofText = Spelling(pl.RightK)
         THEN AcceptsEofAsClose
         ELSE ret'.via # "eofClose"]_vars

-----------------------------------------------------------------------------
(* Further claims about delayed parsing and parser construction. *)

TopLevelParsers == {i \in 1..Len(parsers) : parsers[i].who = "toplevel"}

\* this step constructs a Parser
Constructs == Len(parsers') = Len(parsers) + 1

InTopLevelDecl ==
  dp.pc \in {"toplevel", "tl_construct", "tl_callbacks", "tl_parse", "tl_done"}

\* C12: performDelayedParsing parses the delayed top-level declaration if
\* and only if there is a factory and the state has a delayed declaration,
\* and only after the walk over every top-level declaration; without a
\* factory parseDelayedTopLevelDecl and its assertion are never reached.
C12_TopLevelIffFactoryAndDelayed ==
  /\ [][(Constructs /\ parsers'[Len(parsers')].who = "toplevel") =>
          /\ factory
          /\ ps.delayed # 0
          /\ dp.i > Len(decls)
          /\ \A i \in 1..Len(decls) :
               decls[i].kind # "func_unparsed"
               /\ (decls[i].kind = "other" => decls[i].inner # "func_unparsed")]_vars
  /\ [](DelayedAt("finished") =>
          IF factory THEN ps.delayed = 0 ELSE TopLevelParsers = {})
  /\ [](~factory => ~InTopLevelDecl /\ ~faults.factoryAssert)

\* with a factory, two declarations were walked, one function body parsed,
\* and then the delayed declaration
C12_Witness ==
  /\ DelayedAt("finished")
  /\ factory
  /\ Len(decls) = 2
  /\ Len(parsers) = 3
  /\ parsers[1].who = "main"
  /\ parsers[2].who = "body"
  /\ parsers[3].who = "toplevel"
  /\ parsers[3].parsed
  /\ ps.delayed = 0

\* C16: constructing a Parser leaves the state without a saved position,
\* whatever position was taken and whatever the new parser's buffer; a
\* position a parse saved is handed to the next parser constructed and to
\* no other.
C16_TakeClearsPosition ==
  /\ [][Constructs => ps'.pos = NoPosition]_vars
  /\ [](\A i \in 1..Len(parsers) :
          parsers[i].took.valid =>
            /\ i > 1
            /\ parsers[i - 1].who = "main"
            /\ parsers[i - 1].parsed)

\* a sub-parser took a position saved in another buffer, and the sub-parser
\* after it found none
C16_Witness ==
  /\ Len(parsers) = 3
  /\ parsers[2].who = "body"
  /\ parsers[2].took.valid
  /\ parsers[2].took.buf # parsers[2].buf
  /\ parsers[3].who = "body"
  /\ parsers[3].buf = parsers[2].took.buf
  /\ parsers[3].took = NoPosition
  /\ ps.pos = NoPosition

-----------------------------------------------------------------------------
(* Claims about the tokenizer entry point and the segment splitter. *)

TokLive == TokInit /\ [][TokNext]_vars /\ WF_vars(TokNext)

StrictlyIncreasing(Tokens) ==
  \A i \in 1..Len(Tokens), j \in 1..Len(Tokens) :
    i < j => Tokens[i].off < Tokens[j].off

NoEof(Tokens) == \A i \in 1..Len(Tokens) : Tokens[i].kind # "eof"

\* C13: tokenize terminates, and what it returns holds no eof token and is
\* strictly increasing in position, with and without the splitting of
\* interpolated strings (after which the loop test looks at the last
\* segment token).
C13_TokenizeTerminates ==
  /\ <>out.done
  /\ [](out.done => NoEof(out.toks) /\ StrictlyIncreasing(out.toks))
  /\ []~emptyBack

\* a string literal between two identifiers was split: its first literal
\* token, the tokens of its expression and its last literal token came back
C13_Witness ==
  /\ out.done
  /\ Len(src) = 3
  /\ Len(src[2].segs) = 3
  /\ Len(out.toks) >= 6
  /\ out.toks[1].kind = "identifier"
  /\ out.toks[2] = Token("string_literal", src[2].off, src[2].segs[1].Length + 1)
  /\ out.toks[3].kind = "l_paren"
  /\ out.toks[Len(out.toks) - 1].kind = "string_literal"
  /\ out.toks[Len(out.toks)].kind = "identifier"

InSplitter == TzRunning("getStringPartTokens", "for") /\ TzTop.i # Len(TzTop.segs)

\* C14: for the literal segment at index i of n, with range (start, length),
\* getStringPartTokens emits exactly one string-literal token, at start - 1
\* if i = 0 (else start), of length plus 1 if i = 0 plus 1 if i = n - 1; an
\* interpolated segment is tokenized over its own range, unextended.
C14_LiteralSegmentToken ==
  [][InSplitter =>
       LET i   == TzTop.i
           n   == Len(TzTop.segs)
           seg == TzTop.segs[i + 1]
           start  == IF i = 0 THEN seg.Loc - 1 ELSE seg.Loc
           length == seg.Length + (IF i = 0 THEN 1 ELSE 0)
                                + (IF i = n - 1 THEN 1 ELSE 0)
       IN  IF seg.Kind = "Literal"
             THEN /\ tz'[2].Tokens =
                       Append(tz[2].Tokens, Token("string_literal", start, length))
                  /\ tz'[1] = [TzTop EXCEPT !.i = i + 1]
             ELSE /\ tz'[1].fn = "tokenize"
                  /\ tz'[1].Offset = seg.Loc
                  /\ tz'[1].EndOffset = seg.Loc + seg.Length
                  /\ tz'[3].Tokens = tz[2].Tokens]_vars

\* a string of five segments has been split: the quote went to the first
\* and the last literal token and the interior literal token has none
C14_Witness ==
  /\ TzRunning("getStringPartTokens", "for")
  /\ Len(TzTop.segs) = 5
  /\ TzTop.i = 5
  /\ TzTop.segs[3].Length = 1
  /\ \E k \in 1..Len(tz[2].Tokens) :
       tz[2].Tokens[k] = Token("string_literal", TzTop.segs[3].Loc, 1)
  /\ tz[2].Tokens[Len(tz[2].Tokens)] =
       Token("string_literal", TzTop.segs[5].Loc, TzTop.segs[5].Length + 1)

-----------------------------------------------------------------------------
(* Further claims about the recovery engine. *)

StopRequested ==
  /\ call.op \in {"skipSingle", "skipUntil", "skipUntilDeclStmtRBrace"}
  /\ call.stop

\* the tokens the last call has consumed so far
Consumed == startPos..(pos - 1)

\* C15: when StopAtCodeComplete is requested, skipSingle, skipUntil and
\* skipUntilDeclStmtRBrace never consume a code-completion marker, at any
\* bracket depth.
C15_NeverPastCodeComplete ==
  StopRequested => \A k \in Consumed : toks[k] # "code_complete"

\* skipSingle(true) went into two nested groups and stopped at the marker
C15_Witness ==
  /\ Returned
  /\ call = [op |-> "skipSingle", t1 |-> "unknown", t2 |-> "unknown",
             stop |-> TRUE]
  /\ toks = <<"l_paren", "l_brace", "code_complete", "r_brace", "eof">>
  /\ startPos = 1
  /\ pos = 3

\* no group opened since the call's start is open before token r
DepthZero(r) == OpenAfter(startPos, r, <<>>) = <<>>

Closers == {"r_paren", "r_brace", "r_square"}

\* from the call's start on, every group is closed and no group holds a
\* closer of another kind
WellNested ==
  /\ DepthZero(Len(toks))
  /\ \A r \in startPos..Len(toks) :
       (toks[r] \in Closers /\ ~DepthZero(r)) =>
         toks[r] = Head(OpenAfter(startPos, r, <<>>))

SkipUntilNoStop ==
  /\ Returned
  /\ call.op = "skipUntil"
  /\ ~call.stop
  /\ ~(call.t1 = "unknown" /\ call.t2 = "unknown")

\* C17: skipUntil without StopAtCodeComplete, on well-nested brackets,
\* returns at the first token at bracket depth zero that is one of its
\* targets or eof: a target inside a group opened during the skip never
\* ends the skip.
C17_StopsAtDepthZero ==
  (SkipUntilNoStop /\ WellNested) =>
    /\ DepthZero(pos)
    /\ Tok \in {call.t1, call.t2, "eof"}
    /\ \A r \in startPos..(pos - 1) :
         ~(DepthZero(r) /\ toks[r] \in {call.t1, call.t2})

-----------------------------------------------------------------------------
(* A further claim about the list parser's result. *)

\* C18: parseList returns true whenever it has emitted a diagnostic of its
\* own (unexpected separator, expected separator, unmatched close); a
\* return of false means no diagnostic and no failed element callback.
C18_DiagnosticMeansError ==
  (ListReturned /\ ~ret.value) => (diags = <<>> /\ ~cb.failed)

-----------------------------------------------------------------------------
(* A claim about the partial consumption of '<' and '>'. *)

\* this step is a call of consumeStartingLess or consumeStartingGreater
\* whose assertion held
PartialConsumeStep ==
  /\ cur'.n = cur.n + 1
  /\ cur'.op \in {"consumeStartingLess", "consumeStartingGreater"}
  /\ ~cur'.fault

\* C19: consumeStartingLess and consumeStartingGreater return the start of
\* the current token; from a longer token they leave the token that starts
\* one character on and do not touch PreviousLoc; on a one-character token
\* they do what consumeToken does, PreviousLoc becoming the location
\* returned.
C19_PartialConsume ==
  [][PartialConsumeStep =>
       /\ cur'.ret = cur.Tok.loc
       /\ IF cur.Tok.len > 1
            THEN /\ cur'.Tok = [kind |-> "oper", loc |-> cur.Tok.loc + 1,
                                len |-> cur.Tok.len - 1]
                 /\ cur'.PreviousLoc = cur.PreviousLoc
            ELSE /\ cur'.Tok = LexAt(cur.Tok.loc + 1)
                 /\ cur'.PreviousLoc = cur'.ret
                 /\ cur'.Tok.loc > cur.Tok.loc]_vars

\* '<<' was split, then its second '<' consumed whole
C19_Witness ==
  /\ chars = <<"<", "<", " ", "a">>
  /\ cur.n = 2
  /\ cur.op = "consumeStartingLess"
  /\ cur.ret = 2
  /\ cur.PreviousLoc = 2
  /\ cur.Tok = [kind |-> "identifier", loc |-> 4, len |-> 1]

=============================================================================
